---- MODULE Spec2Model ----
(***************************************************************************)
(* SPARTA data query system: the record database built by build_database,  *)
(* the keyword scorer search_techniques (src/sparta_extractor.py), and the *)
(* embedding search engine SPARTASemanticSearch with its query router      *)
(* SPARTAQueryAgent (src/sparta_semantic_search.py).                       *)
(*                                                                         *)
(* Python strings are sequences of one-character strings, so that lower(), *)
(* the `in` substring test and split() are computed and not assumed.       *)
(* An optional value is <<>> (None) or <<v>>.                              *)
(***************************************************************************)
EXTENDS Integers, Sequences, FiniteSets, TLC

VARIABLES
    \* sparta_extractor.py module state
    TACTICS,            \* the tactic list the build iterates
    SPARTA_DATA,        \* tactic id -> techniques of that tactic
    database,           \* the list returned by build_database
    builds,             \* number of build_database calls made
    first_database,     \* what the first build_database call returned
    \* search_techniques calls
    query,              \* query of the last search_techniques call
    top_k,              \* top_k of the last call
    results,            \* what the last call returned
    prev_top_k,         \* top_k of the call before it
    prev_results,       \* what that call returned
    searches,           \* number of search_techniques calls made
    \* SPARTASemanticSearch object and its files
    model_name,         \* self.model_name
    model,              \* self.model: "None" or "loaded"
    eng_database,       \* self.database: <<>> or <<list>>
    embeddings,         \* self.embeddings: <<>> or <<matrix>>
    index_file,         \* the file at self.index_path: <<>> or <<data>>
    database_file,      \* the list stored in sparta_database.json
    AVAILABLE,          \* SENTENCE_TRANSFORMERS_AVAILABLE
    provider,           \* the embedding provider: model name -> (text -> vector)
    saved,              \* what the last save_embeddings was given to save: <<>> or <<data>>
    call                \* the last engine/agent call: operation, arguments, outcome

buildVars   == <<TACTICS, SPARTA_DATA, database, builds, first_database>>
kwVars      == <<query, top_k, results, prev_top_k, prev_results, searches>>
engineVars  == <<model_name, model, eng_database, embeddings, index_file,
                 database_file, AVAILABLE, provider, saved, call>>
vars        == <<TACTICS, SPARTA_DATA, database, builds, first_database,
                 query, top_k, results, prev_top_k, prev_results, searches,
                 model_name, model, eng_database, embeddings, index_file,
                 database_file, AVAILABLE, provider, saved, call>>

None == <<>>
Some(v) == <<v>>

(***************************************************************************)
(* Bounds                                                                  *)
(***************************************************************************)
MaxTactics    == 2      \* longest tactic list tried by the build
MaxTechniques == 2      \* most techniques under one tactic id
MaxSubs       == 2      \* most sub-techniques under one technique
MaxBuilds     == 2      \* build_database calls per behaviour
MaxTopK       == 3      \* largest top_k passed to a search
MaxSearches   == 2      \* search_techniques calls per behaviour

(***************************************************************************)
(* Python string operations                                                *)
(***************************************************************************)
UpperLetters == <<"A","B","C","D","E","F","G","H","I","J","K","L","M",
                  "N","O","P","Q","R","S","T","U","V","W","X","Y","Z">>
LowerLetters == <<"a","b","c","d","e","f","g","h","i","j","k","l","m",
                  "n","o","p","q","r","s","t","u","v","w","x","y","z">>

LowerChar(c) ==
    IF \E i \in 1..26 : UpperLetters[i] = c
    THEN LowerLetters[CHOOSE i \in 1..26 : UpperLetters[i] = c]
    ELSE c

\* str.lower()
Lower(s) == [i \in 1..Len(s) |-> LowerChar(s[i])]

\* needle in hay  (Python substring test; the empty string is in every string)
Contains(needle, hay) ==
    \E i \in 0..(Len(hay) - Len(needle)) :
        SubSeq(hay, i + 1, i + Len(needle)) = needle

Whitespace == {" ", "\t", "\n"}

\* str.split(): the maximal runs of non-whitespace characters, left to right
RECURSIVE SplitFrom(_, _, _)
SplitFrom(s, i, word) ==
    IF i > Len(s)
    THEN IF word = <<>> THEN <<>> ELSE <<word>>
    ELSE IF s[i] \in Whitespace
         THEN (IF word = <<>> THEN <<>> ELSE <<word>>) \o SplitFrom(s, i + 1, <<>>)
         ELSE SplitFrom(s, i + 1, Append(word, s[i]))

Split(s) == SplitFrom(s, 1, <<>>)

\* set(list)
ToSet(seq) == {seq[i] : i \in 1..Len(seq)}

\* f"{a} {b}"
Sp(a, b) == a \o <<" ">> \o b

(***************************************************************************)
(* build_database                                                          *)
(***************************************************************************)
TechniqueEntry(technique, tactic_info) ==
    [type               |-> "technique",
     id                 |-> technique.id,
     name               |-> technique.name,
     description        |-> technique.description,
     tactic             |-> tactic_info.name,
     tactic_id          |-> tactic_info.id,
     tactic_description |-> tactic_info.description,
     parent_id          |-> None,
     full_text          |-> Sp(Sp(technique.name, technique.description), tactic_info.name)]


\* mutant: the composite text of a sub-technique leaves out the parent's name
SubEntryNoParent(sub, technique, tactic_info) ==
    [type               |-> "sub_technique",
     id                 |-> sub.id,
     name               |-> sub.name,
     description        |-> sub.description,
     tactic             |-> tactic_info.name,
     tactic_id          |-> tactic_info.id,
     tactic_description |-> tactic_info.description,
     parent_id          |-> Some(technique.id),
     parent_name        |-> technique.name,
     full_text          |-> Sp(Sp(sub.name, sub.description), tactic_info.name)]

SubEntry(sub, technique, tactic_info) ==
    [type               |-> "sub_technique",
     id                 |-> sub.id,
     name               |-> sub.name,
     description        |-> sub.description,
     tactic             |-> tactic_info.name,
     tactic_id          |-> tactic_info.id,
     tactic_description |-> tactic_info.description,
     parent_id          |-> Some(technique.id),
     parent_name        |-> technique.name,
     full_text          |-> Sp(Sp(Sp(sub.name, sub.description), technique.name), tactic_info.name)]


\* mutant: a sub-technique is entered as its own parent
SubEntriesSelfParent(technique, tactic_info) ==
    [j \in 1..Len(technique.sub_techniques) |->
        SubEntry(technique.sub_techniques[j], technique.sub_techniques[j], tactic_info)]

\* the inner loop over technique["sub_techniques"]
SubEntries(technique, tactic_info) ==
    [j \in 1..Len(technique.sub_techniques) |->
        SubEntry(technique.sub_techniques[j], technique, tactic_info)]


\* mutant: the technique records of a tactic first, their sub-technique records after
RECURSIVE SubsOfAll(_, _)
SubsOfAll(techniques, tactic_info) ==
    IF techniques = <<>> THEN <<>>
    ELSE SubEntries(Head(techniques), tactic_info) \o SubsOfAll(Tail(techniques), tactic_info)
TechniquesThenSubs(techniques, tactic_info) ==
    [i \in 1..Len(techniques) |-> TechniqueEntry(techniques[i], tactic_info)]
    \o SubsOfAll(techniques, tactic_info)

\* the loop over SPARTA_DATA[tactic_id]["techniques"]
RECURSIVE TechniqueLoop(_, _)
TechniqueLoop(techniques, tactic_info) ==
    IF techniques = <<>> THEN <<>>
    ELSE <<TechniqueEntry(Head(techniques), tactic_info)>>
         \o SubEntries(Head(techniques), tactic_info)
         \o TechniqueLoop(Tail(techniques), tactic_info)

\* a tactic id that is not a key of the data contributes nothing
TacticBody(tactic_info, data) ==
    IF tactic_info.id \in DOMAIN data
    THEN TechniqueLoop(data[tactic_info.id], tactic_info)
    ELSE <<>>

\* the outer loop over TACTICS
RECURSIVE TacticLoop(_, _)
TacticLoop(tactics, data) ==
    IF tactics = <<>> THEN <<>>
    ELSE TacticBody(Head(tactics), data) \o TacticLoop(Tail(tactics), data)

build_database(tactics, data) == TacticLoop(tactics, data)

(***************************************************************************)
(* search_techniques                                                       *)
(***************************************************************************)

\* mutant: a query word that is a whole word of the text earns no 5
RECURSIVE PartialMatchLoopExclusive(_, _, _)
PartialMatchLoopExclusive(words, full_text_lower, score) ==
    IF words = {} THEN score
    ELSE LET word == CHOOSE w \in words : TRUE
         IN  PartialMatchLoopExclusive(words \ {word}, full_text_lower,
                 IF Contains(word, full_text_lower) /\ word \notin ToSet(Split(full_text_lower))
                 THEN score + 5 ELSE score)

\* the loop "for word in query_words: if word in full_text_lower: score += 5"
RECURSIVE PartialMatchLoop(_, _, _)
PartialMatchLoop(words, full_text_lower, score) ==
    IF words = {} THEN score
    ELSE LET word == CHOOSE w \in words : TRUE
         IN  PartialMatchLoop(words \ {word}, full_text_lower,
                              IF Contains(word, full_text_lower) THEN score + 5 ELSE score)


\* mutant: the description match is an elif of the name match
EntryScoreExclusive(entry, q) ==
    LET query_lower     == Lower(q)
        query_words     == ToSet(Split(query_lower))
        full_text_lower == Lower(entry.full_text)
        s2 == IF Contains(query_lower, Lower(entry.name)) THEN 100
              ELSE IF Contains(query_lower, Lower(entry.description)) THEN 50 ELSE 0
        entry_words == ToSet(Split(full_text_lower))
        s3 == s2 + Cardinality(query_words \cap entry_words) * 10
    IN  PartialMatchLoop(query_words, full_text_lower, s3)

\* the score the loop body gives one entry
EntryScore(entry, q) ==
    LET query_lower     == Lower(q)
        query_words     == ToSet(Split(query_lower))
        full_text_lower == Lower(entry.full_text)
        s0 == 0
        s1 == IF Contains(query_lower, Lower(entry.name)) THEN s0 + 100 ELSE s0
        s2 == IF Contains(query_lower, Lower(entry.description)) THEN s1 + 50 ELSE s1
        entry_words == ToSet(Split(full_text_lower))
        overlap     == query_words \cap entry_words
        s3 == s2 + Cardinality(overlap) * 10
    IN  PartialMatchLoop(query_words, full_text_lower, s3)


\* mutant: "if score >= 0"
KeepScoredNonNegative(score) == score >= 0

\* "if score > 0: scored_results.append((score, entry))"
KeepScored(score) == score > 0

\* the loop over the database that fills scored_results
RECURSIVE ScoredResults(_, _)
ScoredResults(db, q) ==
    IF db = <<>> THEN <<>>
    ELSE LET score == EntryScore(Head(db), q)
         IN  (IF KeepScored(score) THEN << <<score, Head(db)>> >> ELSE <<>>)
             \o ScoredResults(Tail(db), q)


\* mutant: a sort that puts an element before the elements of equal key
InsertPosBeforeEqual(x, sorted) == Cardinality({i \in 1..Len(sorted) : sorted[i][1] > x[1]})

\* where list.sort(key=lambda x: x[0], reverse=True) puts the next element:
\* behind every element already placed whose key is not smaller (the sort is stable)
InsertPos(x, sorted) == Cardinality({i \in 1..Len(sorted) : sorted[i][1] >= x[1]})

RECURSIVE SortByScoreDesc(_, _)
SortByScoreDesc(rest, sorted) ==
    IF rest = <<>> THEN sorted
    ELSE LET x == Head(rest)
             p == InsertPos(x, sorted)
         IN  SortByScoreDesc(Tail(rest),
                 SubSeq(sorted, 1, p) \o <<x>> \o SubSeq(sorted, p + 1, Len(sorted)))

\* seq[:k]
SliceTo(seq, k) ==
    IF k >= 0
    THEN SubSeq(seq, 1, IF k < Len(seq) THEN k ELSE Len(seq))
    ELSE SubSeq(seq, 1, IF Len(seq) + k > 0 THEN Len(seq) + k ELSE 0)


\* mutant: slice, then sort
RankScoredSliceFirst(scored, k) == SortByScoreDesc(SliceTo(scored, k), <<>>)

\* sort, then slice
RankScored(scored, k) == SliceTo(SortByScoreDesc(scored, <<>>), k)

search_techniques(db, q, k) ==
    LET ranked == RankScored(ScoredResults(db, q), k)
    IN  [i \in 1..Len(ranked) |-> ranked[i][2]]

(***************************************************************************)
(* Inputs of the build: the tactic list and the technique data             *)
(***************************************************************************)
Digit == <<"1", "2", "3", "4", "5", "6", "7", "8", "9">>

TacticIds == {"ST0001", "ST0002"}

TacticIdList == <<"ST0001", "ST0002", "ST0003", "ST0004", "ST0005", "ST0006", "ST0007",
                  "ST0008", "ST0009">>

\* mutant: the name of the last tactic is part of the name of another tactic
TacticNameWithin(tid) ==
    CASE tid = "ST0001" -> <<"R","e","c","o","n","n","a","i","s","s","a","n","c","e">>
      [] tid = "ST0002" -> <<"R","e","s","o","u","r","c","e"," ","D","e","v","e","l","o","p","m","e","n","t">>
      [] tid = "ST0003" -> <<"I","n","i","t","i","a","l"," ","A","c","c","e","s","s">>
      [] tid = "ST0004" -> <<"E","x","e","c","u","t","i","o","n">>
      [] tid = "ST0005" -> <<"P","e","r","s","i","s","t","e","n","c","e">>
      [] tid = "ST0006" -> <<"D","e","f","e","n","s","e"," ","E","v","a","s","i","o","n">>
      [] tid = "ST0007" -> <<"L","a","t","e","r","a","l"," ","M","o","v","e","m","e","n","t">>
      [] tid = "ST0008" -> <<"I","m","p","a","c","t"," ","E","x","f","i","l","t","r","a","t","i","o","n">>
      [] tid = "ST0009" -> <<"I","m","p","a","c","t">>

\* the names of TACTICS
TacticName(tid) ==
    CASE tid = "ST0001" -> <<"R","e","c","o","n","n","a","i","s","s","a","n","c","e">>
      [] tid = "ST0002" -> <<"R","e","s","o","u","r","c","e"," ","D","e","v","e","l","o","p","m","e","n","t">>
      [] tid = "ST0003" -> <<"I","n","i","t","i","a","l"," ","A","c","c","e","s","s">>
      [] tid = "ST0004" -> <<"E","x","e","c","u","t","i","o","n">>
      [] tid = "ST0005" -> <<"P","e","r","s","i","s","t","e","n","c","e">>
      [] tid = "ST0006" -> <<"D","e","f","e","n","s","e"," ","E","v","a","s","i","o","n">>
      [] tid = "ST0007" -> <<"L","a","t","e","r","a","l"," ","M","o","v","e","m","e","n","t">>
      [] tid = "ST0008" -> <<"E","x","f","i","l","t","r","a","t","i","o","n">>
      [] tid = "ST0009" -> <<"I","m","p","a","c","t">>

TacticInfo(tid) == [id |-> tid, name |-> TacticName(tid), description |-> <<"t">>]

MkSub(tid, i, j) ==
    [id |-> <<tid, i, j>>, name |-> <<"S", Digit[i], Digit[j]>>,
     description |-> <<"s", "u", "b", " ", Digit[j]>>]

MkTechnique(tid, i, nsubs) ==
    [id |-> <<tid, i>>, name |-> <<"T", Digit[i]>>,
     description |-> <<"t", "e", "c", "h", " ", Digit[i]>>,
     sub_techniques |-> [j \in 1..nsubs |-> MkSub(tid, i, j)]]

\* a technique list is given by its shape: the number of sub-techniques of each technique
Shapes == UNION {[1..n -> 0..MaxSubs] : n \in 0..MaxTechniques}

MkTechniques(tid, shape) == [i \in 1..Len(shape) |-> MkTechnique(tid, i, shape[i])]

\* tactic lists: tactic ids are unique
TacticLists ==
    {[i \in 1..Len(s) |-> TacticInfo(s[i])] :
        s \in {t \in UNION {[1..n -> TacticIds] : n \in 0..MaxTactics} :
                  \A i, j \in 1..Len(t) : i # j => t[i] # t[j]}}

\* technique data: any set of tactic ids as keys
DataSets ==
    UNION {{[t \in K |-> MkTechniques(t, sh[t])] : sh \in [K -> Shapes]} : K \in SUBSET TacticIds}

RECURSIVE SumOver(_, _)
SumOver(S, f) ==
    IF S = {} THEN 0
    ELSE LET x == CHOOSE y \in S : TRUE IN f[x] + SumOver(S \ {x}, f)

\* the techniques and the sub-techniques of a taxonomy
CountTechniques(data) == SumOver(DOMAIN data, [t \in DOMAIN data |-> Len(data[t])])
CountSubsOf(techniques) ==
    SumOver(1..Len(techniques), [i \in 1..Len(techniques) |-> Len(techniques[i].sub_techniques)])
CountSubTechniques(data) == SumOver(DOMAIN data, [t \in DOMAIN data |-> CountSubsOf(data[t])])

(***************************************************************************)
(* Inputs of the keyword search: a database built from a taxonomy of one   *)
(* tactic, a technique with one sub-technique and a second technique       *)
(***************************************************************************)
NamePool  == { <<"A","b">>, <<"a"," ","b">> }
DescPool  == { <<"a"," ","b">>, <<"c">> }
QueryPool == { <<>>, <<"a">>, <<"A">>, <<"a"," ","b">>, <<"b"," "," ","a">>,
               <<"a"," ","a">>, <<"c">>, <<"d">>, <<"a"," ","c">> }

KwTactic == [id |-> "ST0001", name |-> <<"T">>, description |-> <<"t">>]

KwData(n, d) ==
    [t \in {"ST0001"} |->
        << [id |-> <<t, 1>>, name |-> n[1], description |-> d[1],
            sub_techniques |-> << [id |-> <<t, 1, 1>>, name |-> n[2], description |-> d[2]] >>],
           [id |-> <<t, 2>>, name |-> n[3], description |-> d[3],
            sub_techniques |-> <<>>] >>]

KwDataSets == {KwData(n, d) : n \in [1..3 -> NamePool], d \in [1..3 -> DescPool]}

(***************************************************************************)
(* SPARTASemanticSearch                                                    *)
(*                                                                         *)
(* The embedding provider is external: for each model name, model.encode   *)
(* is a function from the record texts to vectors of Vectors (provider),   *)
(* and the embedding of a query is any vector of Vectors.  A cosine c is   *)
(* held as the integer 100*c*|c|, which orders scores as c does and is     *)
(* exact for Vectors; a min_score m >= 0 is held on the same scale, as     *)
(* 100*m*m.  A division of zero by zero is numpy's nan.                    *)
(***************************************************************************)
ModelNames == {"all-MiniLM-L6-v2", "all-mpnet-base-v2"}

Vectors == { <<0, 0>>, <<1, 0>>, <<0, 1>>, <<1, 1>> }

\* 0.0 (the default of search), 0.3 (answer_query) and 0.9
MinScoreDefault == 0
MinScoreAgent   == 9
MinScores       == {MinScoreDefault, MinScoreAgent, 81}
TopKAgent       == 5

\* sparta_database.json, the database the extractor saved: a technique with a
\* sub-technique under Reconnaissance, a technique under Impact
EngTactics == <<TacticInfo("ST0001"), TacticInfo("ST0009")>>
EngData    == [t \in {"ST0001", "ST0009"} |-> MkTechniques(t, IF t = "ST0001" THEN <<1>> ELSE <<0>>)]
DatabaseFile == build_database(EngTactics, EngData)

\* a larger sparta_database.json: two techniques with a sub-technique each
\* under Reconnaissance, a technique with a sub-technique under Impact
AgentData ==
    [t \in {"ST0001", "ST0009"} |-> MkTechniques(t, IF t = "ST0001" THEN <<1, 1>> ELSE <<1>>)]
AgentDatabaseFile == build_database(EngTactics, AgentData)

RECURSIVE Join(_, _)
Join(parts, sep) ==
    IF parts = <<>> THEN <<>>
    ELSE IF Len(parts) = 1 THEN parts[1]
    ELSE parts[1] \o sep \o Join(Tail(parts), sep)

\* entry['type'].replace('_', ' ')
TypeText(type) ==
    IF type = "technique" THEN <<"t","e","c","h","n","i","q","u","e">>
    ELSE <<"s","u","b"," ","t","e","c","h","n","i","q","u","e">>

\* the text create_embeddings composes for one entry
EmbeddingText(entry) ==
    LET text_parts ==
            << <<"T","e","c","h","n","i","q","u","e",":"," ">> \o entry.name,
               <<"D","e","s","c","r","i","p","t","i","o","n",":"," ">> \o entry.description,
               <<"T","a","c","t","i","c",":"," ">> \o entry.tactic,
               <<"C","a","t","e","g","o","r","y",":"," ">> \o TypeText(entry.type) >>
        parent ==
            IF "parent_name" \in DOMAIN entry /\ entry.parent_name # <<>>
            THEN << <<"P","a","r","e","n","t",":"," ">> \o entry.parent_name >>
            ELSE <<>>
    IN  Join(text_parts \o parent, <<".", " ">>)

Texts == {EmbeddingText(DatabaseFile[i]) : i \in 1..Len(DatabaseFile)}


\* mutant: the vectors come back in the reverse order of the texts
EncodeReversed(s, texts) ==
    [i \in 1..Len(texts) |-> s.provider[s.model_name][texts[Len(texts) + 1 - i]]]

\* self.model.encode(texts, ...): one vector per text, in the order of the texts
Encode(s, texts) == [i \in 1..Len(texts) |-> s.provider[s.model_name][texts[i]]]

NaN    == [nan |-> TRUE,  v |-> 0]
Num(x) == [nan |-> FALSE, v |-> x]

Dot(a, b) == a[1] * b[1] + a[2] * b[2]
Abs(x) == IF x < 0 THEN 0 - x ELSE x

\* np.dot(e, q) / (np.linalg.norm(e) * np.linalg.norm(q))
Cosine(e, q) ==
    IF Dot(e, e) * Dot(q, q) = 0
    THEN NaN
    ELSE Num((100 * Dot(e, q) * Abs(Dot(e, q))) \div (Dot(e, e) * Dot(q, q)))

\* score >= min_score  (False when score is nan)
ScoreGe(score, m) == ~score.nan /\ score.v >= m

\* the order np.argsort sorts into: ascending, nan behind every number
SortsBefore(a, b) == b.nan \/ (~a.nan /\ a.v <= b.v)

\* the orders of the indices in rest that are ascending in sim: any index
\* that sorts before all the others comes first
RECURSIVE ArgsortsOf(_, _)
ArgsortsOf(sim, rest) ==
    IF rest = {} THEN {<<>>}
    ELSE UNION {{<<i>> \o p : p \in ArgsortsOf(sim, rest \ {i})} :
                   i \in {i \in rest : \A j \in rest : SortsBefore(sim[i], sim[j])}}

\* np.argsort(similarities): the default kind is not a stable sort, so that
\* equal scores come out in any order
Argsorts(sim) == ArgsortsOf(sim, 1..Len(sim))

\* seq[::-1]
Reverse(seq) == [i \in 1..Len(seq) |-> seq[Len(seq) + 1 - i]]


\* mutant: the reversal [::-1] is left out
TopIndicesAscending(p, k) == SliceTo(p, k)

\* np.argsort(similarities)[::-1][:top_k]
TopIndices(p, k) == SliceTo(Reverse(p), k)

\* the engine object and the index file, as the methods thread them
Engine ==
    [model_name |-> model_name, model |-> model, database |-> eng_database,
     embeddings |-> embeddings, index_file |-> index_file,
     database_file |-> database_file, provider |-> provider, saved |-> saved,
     error |-> "", loaded |-> FALSE, results |-> <<>>, qv |-> <<0, 0>>, encoded |-> <<>>,
     dumps |-> 0]

do_load_model(s) ==
    IF ~AVAILABLE
    THEN [s EXCEPT !.error = "ImportError"]
    ELSE [s EXCEPT !.model = "loaded"]

do_load_database(s) == [s EXCEPT !.database = Some(s.database_file)]

do_create_embeddings(s) ==
    LET s1 == IF s.model = "None" THEN do_load_model(s) ELSE s
        s2 == IF s1.database = None THEN do_load_database(s1) ELSE s1
        db == s2.database[1]
        texts == [i \in 1..Len(db) |-> EmbeddingText(db[i])]
    IN  IF s1.error # "" THEN s1
        ELSE [s2 EXCEPT !.embeddings = Some(Encode(s2, texts)),
                        !.encoded = Append(@, texts)]

\* pickle.dump of self.embeddings: None, or the shape of the array and its
\* elements row after row
Dumps(e) ==
    IF e = None THEN [none |-> TRUE, shape |-> <<0, 0>>, data |-> <<>>]
    ELSE LET rows == Len(e[1])
             cols == IF rows = 0 THEN 0 ELSE Len(e[1][1])
         IN  [none |-> FALSE, shape |-> <<rows, cols>>,
              data |-> [n \in 1..(rows * cols) |->
                          e[1][((n - 1) \div cols) + 1][((n - 1) % cols) + 1]]]


\* mutant: the elements are read back column after column
LoadsTransposed(d) ==
    IF d.none THEN None
    ELSE Some([r \in 1..d.shape[1] |->
                  [c \in 1..d.shape[2] |-> d.data[(c - 1) * d.shape[1] + r]]])

\* pickle.load of what Dumps wrote
Loads(d) ==
    IF d.none THEN None
    ELSE Some([r \in 1..d.shape[1] |->
                  [c \in 1..d.shape[2] |-> d.data[(r - 1) * d.shape[2] + c]]])

do_save_embeddings(s) ==
    [s EXCEPT !.index_file = Some([embeddings |-> Dumps(s.embeddings),
                                   model_name |-> s.model_name]),
              !.saved = Some([embeddings |-> s.embeddings, model_name |-> s.model_name]),
              !.dumps = @ + 1]

\* what load_embeddings takes from the file
RestoredEmbeddings(s) == Loads(s.index_file[1].embeddings)

do_load_embeddings(s) ==
    IF s.index_file # None
    THEN [s EXCEPT !.embeddings = RestoredEmbeddings(s), !.loaded = TRUE]
    ELSE [s EXCEPT !.loaded = FALSE]

\* the loop "for idx in top_indices"
RECURSIVE ResultLoop(_, _, _, _, _)
ResultLoop(s, top_indices, sim, m, acc) ==
    IF top_indices = <<>> THEN [s EXCEPT !.results = acc]
    ELSE LET idx == Head(top_indices)
         IN  IF ScoreGe(sim[idx], m)
             THEN IF s.database = None THEN [s EXCEPT !.error = "TypeError"]
                  ELSE IF idx > Len(s.database[1]) THEN [s EXCEPT !.error = "IndexError"]
                  ELSE ResultLoop(s, Tail(top_indices), sim, m,
                                  Append(acc, [entry |-> s.database[1][idx], score |-> sim[idx]]))
             ELSE ResultLoop(s, Tail(top_indices), sim, m, acc)


\* mutant: the index is built and saved by every search
EnsureIndexRebuilding(s1) == do_save_embeddings(do_create_embeddings(s1))

\* "if self.embeddings is None: if not self.load_embeddings(): create, save"
EnsureIndex(s1) ==
    IF s1.embeddings = None
    THEN LET l == do_load_embeddings(s1)
         IN  IF l.loaded THEN l ELSE do_save_embeddings(do_create_embeddings(l))
    ELSE s1

\* the similarities of the stored vectors to the query vector
Similarities(E, qv) == [i \in 1..Len(E) |-> Cosine(E[i], qv)]

\* search(query, top_k, min_score): the outcomes the call can have; qv is
\* model.encode([query])[0]
do_search(s, q, k, m) ==
    LET s1 == IF s.model = "None" THEN do_load_model(s) ELSE s
        s2 == EnsureIndex(s1)
    IN  IF s1.error # "" THEN {s1}
        ELSE UNION {
            LET s3 == [s2 EXCEPT !.qv = qv, !.encoded = Append(@, <<q>>)]
            IN  IF s3.embeddings = None THEN {[s3 EXCEPT !.error = "TypeError"]}
                ELSE LET sim == Similarities(s3.embeddings[1], qv)
                     IN  {ResultLoop(s3, TopIndices(p, k), sim, m, <<>>) : p \in Argsorts(sim)}
            : qv \in Vectors}


\* mutant: the comparison is made without lower()
do_search_by_tactic_cased(s, tactic_name) ==
    LET s1 == IF s.database = None THEN do_load_database(s) ELSE s
    IN  [s1 EXCEPT !.results =
            SelectSeq(s1.database[1], LAMBDA entry : Contains(tactic_name, entry.tactic))]

\* search_by_tactic(tactic_name)
do_search_by_tactic(s, tactic_name) ==
    LET s1 == IF s.database = None THEN do_load_database(s) ELSE s
        tactic_lower == Lower(tactic_name)
    IN  [s1 EXCEPT !.results =
            SelectSeq(s1.database[1], LAMBDA entry : Contains(tactic_lower, Lower(entry.tactic)))]

\* results[1:]
DropFirst(seq) == IF seq = <<>> THEN <<>> ELSE Tail(seq)

\* what get_related_techniques keeps of the search for the technique's description
ExcludeItself(found, technique_id) == DropFirst(found)


\* mutant: the technique that was found is taken out of self.database
do_get_related_techniques_removing(s, technique_id, k) ==
    LET s1 == IF s.database = None THEN do_load_database(s) ELSE s
        db == s1.database[1]
        hits == {i \in 1..Len(db) : db[i].id = technique_id}
        s2 == [s1 EXCEPT !.database = Some(SelectSeq(db, LAMBDA e : e.id # technique_id))]
    IN  IF hits = {} THEN {[s1 EXCEPT !.results = <<>>]}
        ELSE {[out EXCEPT !.results = DropFirst(out.results)] :
                  out \in do_search(s2, db[CHOOSE i \in hits : TRUE].description,
                                    k + 1, MinScoreDefault)}

\* get_related_techniques(technique_id, top_k)
do_get_related_techniques(s, technique_id, k) ==
    LET s1 == IF s.database = None THEN do_load_database(s) ELSE s
        db == s1.database[1]
        hits == {i \in 1..Len(db) : db[i].id = technique_id}
        technique == db[CHOOSE i \in hits : \A j \in hits : i <= j]
    IN  IF hits = {} THEN {[s1 EXCEPT !.results = <<>>]}
        ELSE {IF out.error # "" THEN out
              ELSE [out EXCEPT !.results = ExcludeItself(out.results, technique_id)] :
                  out \in do_search(s1, technique.description, k + 1, MinScoreDefault)}

(***************************************************************************)
(* SPARTAQueryAgent                                                        *)
(***************************************************************************)
tactic_keywords ==
    << [keyword |-> <<"r","e","c","o","n","n","a","i","s","s","a","n","c","e">>,
        tactic  |-> <<"R","e","c","o","n","n","a","i","s","s","a","n","c","e">>],
       [keyword |-> <<"r","e","s","o","u","r","c","e"," ","d","e","v","e","l","o","p","m","e","n","t">>,
        tactic  |-> <<"R","e","s","o","u","r","c","e"," ","D","e","v","e","l","o","p","m","e","n","t">>],
       [keyword |-> <<"i","n","i","t","i","a","l"," ","a","c","c","e","s","s">>,
        tactic  |-> <<"I","n","i","t","i","a","l"," ","A","c","c","e","s","s">>],
       [keyword |-> <<"e","x","e","c","u","t","i","o","n">>,
        tactic  |-> <<"E","x","e","c","u","t","i","o","n">>],
       [keyword |-> <<"p","e","r","s","i","s","t","e","n","c","e">>,
        tactic  |-> <<"P","e","r","s","i","s","t","e","n","c","e">>],
       [keyword |-> <<"d","e","f","e","n","s","e"," ","e","v","a","s","i","o","n">>,
        tactic  |-> <<"D","e","f","e","n","s","e"," ","E","v","a","s","i","o","n">>],
       [keyword |-> <<"l","a","t","e","r","a","l"," ","m","o","v","e","m","e","n","t">>,
        tactic  |-> <<"L","a","t","e","r","a","l"," ","M","o","v","e","m","e","n","t">>],
       [keyword |-> <<"e","x","f","i","l","t","r","a","t","i","o","n">>,
        tactic  |-> <<"E","x","f","i","l","t","r","a","t","i","o","n">>],
       [keyword |-> <<"i","m","p","a","c","t">>,
        tactic  |-> <<"I","m","p","a","c","t">>] >>


\* mutant: the query has to be the keyword, not to contain it
RECURSIVE FirstKeywordEqual(_, _)
FirstKeywordEqual(query_lower, i) ==
    IF i > Len(tactic_keywords) THEN 0
    ELSE IF tactic_keywords[i].keyword = query_lower THEN i
    ELSE FirstKeywordEqual(query_lower, i + 1)

\* the loop "for keyword, tactic in tactic_keywords.items()": the index of the
\* first keyword the lowercased query contains, 0 when there is none
RECURSIVE FirstKeyword(_, _)
FirstKeyword(query_lower, i) ==
    IF i > Len(tactic_keywords) THEN 0
    ELSE IF Contains(tactic_keywords[i].keyword, query_lower) THEN i
    ELSE FirstKeyword(query_lower, i + 1)


\* mutant: the keyword that occurs first in the query wins
MatchingKeywordByPosition(query_lower) ==
    LET found == {i \in 1..Len(tactic_keywords) : Contains(tactic_keywords[i].keyword, query_lower)}
        at(i) == CHOOSE off \in 0..Len(query_lower) :
                     /\ SubSeq(query_lower, off + 1, off + Len(tactic_keywords[i].keyword))
                            = tactic_keywords[i].keyword
                     /\ \A o2 \in 0..(off - 1) :
                            SubSeq(query_lower, o2 + 1, o2 + Len(tactic_keywords[i].keyword))
                                # tactic_keywords[i].keyword
    IN  IF found = {} THEN 0
        ELSE CHOOSE i \in found : \A j \in found : at(i) < at(j) \/ (at(i) = at(j) /\ i <= j)

\* the keyword whose "if keyword in query_lower" is the first to hold in the
\* iteration of the dict, 0 when the loop ends without a return
MatchingKeyword(query_lower) == FirstKeyword(query_lower, 1)

\* the tactic answer_query asks search_by_tactic for
RoutedTactic(i) == tactic_keywords[i].tactic

\* no string is returned: the call raised
NoResponse == [kind |-> "none", items |-> <<>>]

\* _format_tactic_response(tactic, techniques): the heading, the two counts,
\* and for every technique its id with the ids of the sub-techniques under it
format_tactic_response(tactic, techniques) ==
    LET main_techniques == SelectSeq(techniques, LAMBDA e : e.type = "technique")
        sub_techniques  == SelectSeq(techniques, LAMBDA e : e.type = "sub_technique")
        subs(tech) == SelectSeq(sub_techniques, LAMBDA e : e.parent_id = Some(tech.id))
    IN  [kind  |-> "tactic", tactic |-> tactic,
         found |-> <<Len(main_techniques), Len(sub_techniques)>>,
         items |-> [n \in 1..Len(main_techniques) |->
                      [id   |-> main_techniques[n].id,
                       subs |-> [j \in 1..Len(subs(main_techniques[n])) |->
                                   subs(main_techniques[n])[j].id]]]]

\* _format_search_response(query, results): the "No relevant techniques found"
\* sentence when results is empty, else one numbered item per result
format_search_response(q, res) ==
    IF res = <<>>
    THEN [kind |-> "no_relevant", items |-> <<>>]
    ELSE [kind |-> "relevant", query |-> q,
          items |-> [n \in 1..Len(res) |->
                       [id |-> res[n].entry.id, score |-> res[n].score]]]


\* mutant: the general search is made with the default min_score
AgentSearchDefaultScore(s, q) == do_search(s, q, TopKAgent, MinScoreDefault)

\* self.search_engine.search(query, top_k=5, min_score=0.3)
AgentSearch(s, q) == do_search(s, q, TopKAgent, MinScoreAgent)


\* mutant: an error of the search is caught and answered as an empty result
SemanticAnswerCaught(q, out) ==
    [path |-> "semantic", tactic |-> <<>>, top_k |-> TopKAgent, min_score |-> MinScoreAgent,
     s |-> [out EXCEPT !.error = "", !.results = IF out.error # "" THEN <<>> ELSE @],
     response |-> format_search_response(q, IF out.error # "" THEN <<>> ELSE out.results)]

\* the general semantic search branch of answer_query: an exception of search
\* propagates, otherwise the results are formatted
SemanticAnswer(q, out) ==
    [path |-> "semantic", tactic |-> <<>>, top_k |-> TopKAgent, min_score |-> MinScoreAgent,
     s |-> out,
     response |-> IF out.error # "" THEN NoResponse ELSE format_search_response(q, out.results)]


\* mutant: the model is loaded before the tactic is looked up
TacticAnswerWithModel(s, tactic) ==
    LET s1  == IF s.model = "None" THEN do_load_model(s) ELSE s
        out == IF s1.error # "" THEN s1 ELSE do_search_by_tactic(s1, tactic)
    IN  [path |-> "tactic", tactic |-> tactic, top_k |-> 0, min_score |-> 0,
         s |-> out,
         response |-> IF out.error # "" THEN NoResponse
                      ELSE format_tactic_response(tactic, out.results)]

\* the tactic branch of answer_query: search_by_tactic, then the formatter
TacticAnswer(s, tactic) ==
    LET out == do_search_by_tactic(s, tactic)
    IN  [path |-> "tactic", tactic |-> tactic, top_k |-> 0, min_score |-> 0,
         s |-> out, response |-> format_tactic_response(tactic, out.results)]

\* answer_query(query)
do_answer_query(s, q) ==
    LET i == MatchingKeyword(Lower(q))
    IN  IF i # 0
        THEN {TacticAnswer(s, RoutedTactic(i))}
        ELSE {SemanticAnswer(q, out) : out \in AgentSearch(s, q)}

\* the questions put to the agent
AgentQueries ==
    { <<"w","h","a","t"," ","a","r","e"," ","t","h","e"," ","r","e","c","o","n","n","a","i","s","s","a","n","c","e"," ","t","e","c","h","n","i","q","u","e","s">>,
      <<"W","h","a","t"," ","R","E","C","O","N","N","A","I","S","S","A","N","C","E"," ","i","s"," ","d","o","n","e">>,
      <<"i","m","p","a","c","t"," ","o","f"," ","e","x","e","c","u","t","i","o","n">>,
      <<"I","m","p","a","c","t"," ","o","r"," ","r","e","c","o","n","n","a","i","s","s","a","n","c","e">>,
      <<"j","a","m"," ","s","a","t","e","l","l","i","t","e">>,
      <<"i","n","i","t","i","a","l"," "," ","a","c","c","e","s","s">>,
      <<"p","e","r","s","i","s","t","e","n","c","e">>,
      <<>>,
      <<"I","m","p","a","c","t","f","u","l">> }

(***************************************************************************)
(* Specification of the build: the taxonomy is the input, build_database   *)
(* is called up to MaxBuilds times                                         *)
(***************************************************************************)
NoCall ==
    [op |-> "none", query |-> <<>>, qv |-> <<0, 0>>, top_k |-> 0, min_score |-> 0,
     id |-> <<>>, tactic |-> <<>>, path |-> "", results |-> <<>>, error |-> "",
     loaded |-> FALSE, response |-> NoResponse, encoded |-> <<>>, dumps |-> 0]

\* a provider that gives text number i of the database the vector M[i] under
\* the first model name and N[i] under the second
TextIndex(t) == CHOOSE i \in 1..Len(DatabaseFile) : EmbeddingText(DatabaseFile[i]) = t
ProviderOf(M, N) ==
    [mn \in ModelNames |->
        [t \in Texts |-> IF mn = "all-MiniLM-L6-v2" THEN M[TextIndex(t)] ELSE N[TextIndex(t)]]]

IdleBuild ==
    /\ TACTICS = <<>> /\ SPARTA_DATA = <<>>
    /\ database = <<>> /\ builds = 0 /\ first_database = <<>>

IdleKeyword ==
    /\ query = <<>> /\ top_k = 0 /\ results = <<>>
    /\ prev_top_k = 0 /\ prev_results = <<>> /\ searches = 0

IdleEngine ==
    /\ model_name = "all-MiniLM-L6-v2" /\ model = "None" /\ eng_database = None
    /\ embeddings = None /\ index_file = None /\ AVAILABLE = TRUE /\ call = NoCall
    /\ database_file = <<>> /\ provider = <<>> /\ saved = None

InitBuild ==
    /\ TACTICS \in TacticLists
    /\ SPARTA_DATA \in DataSets
    /\ database = <<>> /\ builds = 0 /\ first_database = <<>>
    /\ IdleKeyword /\ IdleEngine

Build ==
    /\ builds < MaxBuilds
    /\ database' = build_database(TACTICS, SPARTA_DATA)
    /\ builds' = builds + 1
    /\ first_database' = IF builds = 0 THEN database' ELSE first_database
    /\ UNCHANGED <<TACTICS, SPARTA_DATA, kwVars, engineVars>>

NextBuild == Build

SpecBuild == InitBuild /\ [][NextBuild]_vars

(***************************************************************************)
(* Specification of the keyword search: main() builds the database, then   *)
(* every query of interactive_query calls search_techniques on it          *)
(***************************************************************************)
InitKeyword ==
    /\ TACTICS = <<KwTactic>>
    /\ SPARTA_DATA \in KwDataSets
    /\ database = build_database(TACTICS, SPARTA_DATA)
    /\ builds = 1 /\ first_database = database
    /\ query \in QueryPool
    /\ top_k = 0 /\ results = <<>> /\ prev_top_k = 0 /\ prev_results = <<>>
    /\ searches = 0
    /\ IdleEngine

SearchTechniques(k) ==
    /\ searches < MaxSearches
    /\ results' = search_techniques(database, query, k)
    /\ top_k' = k
    /\ prev_top_k' = top_k /\ prev_results' = results
    /\ searches' = searches + 1
    /\ UNCHANGED <<buildVars, query, engineVars>>

NextKeyword == \E k \in 0..MaxTopK : SearchTechniques(k)

SpecKeyword == InitKeyword /\ [][NextKeyword]_vars

(***************************************************************************)
(* The methods of the engine and of the agent                              *)
(***************************************************************************)
\* the engine after a method has run, and the record of the call
Return(out, c) ==
    /\ model' = out.model
    /\ eng_database' = out.database
    /\ embeddings' = out.embeddings
    /\ index_file' = out.index_file
    /\ saved' = out.saved
    /\ call' = [c EXCEPT !.results = out.results, !.error = out.error,
                         !.loaded = out.loaded, !.qv = out.qv, !.encoded = out.encoded,
                         !.dumps = out.dumps]
    /\ UNCHANGED <<model_name, database_file, AVAILABLE, provider, buildVars, kwVars>>

\* SPARTASemanticSearch(model_name=m)
NewEngine(m) ==
    /\ model_name' = m
    /\ model' = "None" /\ eng_database' = None /\ embeddings' = None
    /\ call' = [NoCall EXCEPT !.op = "__init__"]
    /\ UNCHANGED <<index_file, database_file, AVAILABLE, provider, saved, buildVars, kwVars>>

LoadModel == Return(do_load_model(Engine), [NoCall EXCEPT !.op = "load_model"])

LoadDatabase == Return(do_load_database(Engine), [NoCall EXCEPT !.op = "load_database"])

CreateEmbeddings == Return(do_create_embeddings(Engine), [NoCall EXCEPT !.op = "create_embeddings"])

SaveEmbeddings == Return(do_save_embeddings(Engine), [NoCall EXCEPT !.op = "save_embeddings"])

LoadEmbeddings == Return(do_load_embeddings(Engine), [NoCall EXCEPT !.op = "load_embeddings"])

\* the query of the direct searches
SearchQuery == <<"j","a","m"," ","s","a","t","e","l","l","i","t","e">>

Search(K, MS) ==
    \E k \in K, m \in MS :
        \E out \in do_search(Engine, SearchQuery, k, m) :
            Return(out, [NoCall EXCEPT !.op = "search", !.query = SearchQuery,
                                       !.top_k = k, !.min_score = m])

\* the tactic names asked for: two canonical names, one of them of no record
\* of the database, and strings in another case than the names of the records
TacticArguments ==
    { tactic_keywords[1].tactic, tactic_keywords[4].tactic,
      <<"i","M","P">>, <<"A">>, <<"r","e","c","o","n"," ">> }

SearchByTactic(T) ==
    \E tactic_name \in T :
        Return(do_search_by_tactic(Engine, tactic_name),
               [NoCall EXCEPT !.op = "search_by_tactic", !.tactic = tactic_name])

\* the ids asked for: those of the database and one that is not in it
RelatedIds == {DatabaseFile[i].id : i \in 1..Len(DatabaseFile)} \cup {<<"ST0001", 9>>}

GetRelatedTechniques(K) ==
    \E id \in RelatedIds, k \in K :
        \E out \in do_get_related_techniques(Engine, id, k) :
            Return(out, [NoCall EXCEPT !.op = "get_related_techniques", !.id = id, !.top_k = k])

AnswerQuery ==
    \E q \in AgentQueries :
        \E a \in do_answer_query(Engine, q) :
            Return(a.s, [NoCall EXCEPT !.op = "answer_query", !.query = q,
                                       !.path = a.path, !.tactic = a.tactic,
                                       !.top_k = a.top_k, !.min_score = a.min_score,
                                       !.response = a.response])

(***************************************************************************)
(* Specification of the ranking: an engine that setup_and_test has         *)
(* initialised (database and model loaded, embeddings created and saved),  *)
(* for every provider; a search or a related-technique lookup is made      *)
(***************************************************************************)
InitRank ==
    /\ IdleBuild /\ IdleKeyword
    /\ model_name = "all-MiniLM-L6-v2"
    /\ database_file = DatabaseFile
    /\ provider \in {[mn \in ModelNames |-> f] : f \in [Texts -> Vectors]}
    /\ AVAILABLE = TRUE
    /\ LET fresh == [model_name |-> model_name, model |-> "None", database |-> None,
                     embeddings |-> None, index_file |-> None,
                     database_file |-> database_file, provider |-> provider,
                     saved |-> None,
                     error |-> "", loaded |-> FALSE, results |-> <<>>, qv |-> <<0, 0>>,
                     encoded |-> <<>>, dumps |-> 0]
           s == do_save_embeddings(do_create_embeddings(do_load_model(do_load_database(fresh))))
       IN  /\ model = s.model /\ eng_database = s.database
           /\ embeddings = s.embeddings /\ index_file = s.index_file
           /\ saved = s.saved
    /\ call = NoCall

\* one call is made on the engine
NextRank ==
    /\ call = NoCall
    /\ \/ Search(0..MaxTopK, MinScores)
       \/ GetRelatedTechniques(0..MaxTopK)

SpecRank == InitRank /\ [][NextRank]_vars

(***************************************************************************)
(* Specification of the engine and the agent: engines are constructed over *)
(* the same index file, and their methods are called in any order          *)
(***************************************************************************)
Providers ==
    { ProviderOf(<< <<1, 0>>, <<0, 1>>, <<1, 1>> >>, << <<1, 1>>, <<1, 0>>, <<0, 0>> >>),
      ProviderOf(<< <<1, 0>>, <<1, 0>>, <<0, 1>> >>, << <<0, 1>>, <<0, 1>>, <<1, 0>> >>) }

Init ==
    /\ IdleBuild /\ IdleKeyword
    /\ model_name \in ModelNames
    /\ database_file = DatabaseFile
    /\ provider \in Providers
    /\ model = "None" /\ eng_database = None /\ embeddings = None
    /\ index_file = None /\ saved = None
    /\ AVAILABLE \in BOOLEAN
    /\ call = NoCall

Next ==
    \/ \E m \in ModelNames : NewEngine(m)
    \/ LoadModel
    \/ LoadDatabase
    \/ CreateEmbeddings
    \/ SaveEmbeddings
    \/ LoadEmbeddings
    \/ Search({1, MaxTopK}, {MinScoreDefault})
    \/ SearchByTactic(TacticArguments)
    \/ GetRelatedTechniques({1})
    \/ AnswerQuery

Spec == Init /\ [][Next]_vars

(***************************************************************************)
(* Specification of the agent: interactive_mode over the larger database,  *)
(* with and without the sentence-transformers package; the engine's setup  *)
(* methods and the agent's answer_query are called in any order            *)
(***************************************************************************)
AgentTexts == {EmbeddingText(AgentDatabaseFile[i]) : i \in 1..Len(AgentDatabaseFile)}

\* a provider that gives text number i of the larger database the vector M[i]
AgentProviderOf(M) ==
    [mn \in ModelNames |->
        [t \in AgentTexts |->
            M[CHOOSE i \in 1..Len(AgentDatabaseFile) : EmbeddingText(AgentDatabaseFile[i]) = t]]]

AgentProviders ==
    { AgentProviderOf(<< <<1, 0>>, <<1, 0>>, <<1, 1>>, <<1, 1>>, <<1, 0>>, <<0, 1>> >>),
      AgentProviderOf(<< <<1, 1>>, <<1, 1>>, <<1, 1>>, <<0, 0>>, <<1, 0>>, <<0, 1>> >>) }

InitAgent ==
    /\ IdleBuild /\ IdleKeyword
    /\ model_name = "all-MiniLM-L6-v2"
    /\ database_file = AgentDatabaseFile
    /\ provider \in AgentProviders
    /\ model = "None" /\ eng_database = None /\ embeddings = None
    /\ index_file = None /\ saved = None
    /\ AVAILABLE \in BOOLEAN
    /\ call = NoCall

NextAgent ==
    \/ LoadDatabase
    \/ LoadModel
    \/ CreateEmbeddings
    \/ SaveEmbeddings
    \/ LoadEmbeddings
    \/ AnswerQuery

SpecAgent == InitAgent /\ [][NextAgent]_vars

(***************************************************************************)
(* Specification of the tactic filter over the built-in tactic list: the   *)
(* database holds, for each of the nine tactics of TACTICS, a technique    *)
(* with or without a sub-technique; search_by_tactic is called with the    *)
(* canonical names of the router                                           *)
(***************************************************************************)
BuiltinTactics == [k \in 1..Len(TacticIdList) |-> TacticInfo(TacticIdList[k])]

\* the tactics whose technique has a sub-technique in some of the databases
VariedTactics == {"ST0001", "ST0004", "ST0008", "ST0009"}

BuiltinData(sh) ==
    [t \in ToSet(TacticIdList) |->
        MkTechniques(t, <<IF t \in VariedTactics THEN sh[t] ELSE 0>>)]

CanonicalNames == {RoutedTactic(i) : i \in 1..Len(tactic_keywords)}

InitTaxonomy ==
    /\ IdleBuild /\ IdleKeyword
    /\ model_name = "all-MiniLM-L6-v2"
    /\ \E sh \in [VariedTactics -> {0, 1}] :
          database_file = build_database(BuiltinTactics, BuiltinData(sh))
    /\ provider = <<>>
    /\ model = "None" /\ eng_database = None /\ embeddings = None
    /\ index_file = None /\ saved = None
    /\ AVAILABLE = TRUE
    /\ call = NoCall

NextTaxonomy ==
    \/ LoadDatabase
    \/ SearchByTactic(CanonicalNames)

SpecTaxonomy == InitTaxonomy /\ [][NextTaxonomy]_vars

(***************************************************************************)
(* Properties of the build (SpecBuild)                                     *)
(***************************************************************************)
\* C1: for every taxonomy, build_database returns exactly count(techniques) +
\* count(sub_techniques) records, and a second build from the same taxonomy
\* returns the same records in the same order.
C1_BuildCountAndRepeat ==
    builds > 0 =>
        /\ Len(database) = CountTechniques(SPARTA_DATA) + CountSubTechniques(SPARTA_DATA)
        /\ database = first_database

\* the place of a tactic id in the tactic list
TacticPos(tid) == CHOOSE k \in 1..Len(TACTICS) : TACTICS[k].id = tid

\* the declared technique a technique record was made from
DeclaredTechnique(r) ==
    LET techniques == SPARTA_DATA[r.tactic_id]
    IN  techniques[CHOOSE i \in 1..Len(techniques) : techniques[i].id = r.id]

\* the place of a technique in the technique list of its tactic
TechniquePos(r) ==
    LET techniques == SPARTA_DATA[r.tactic_id]
    IN  CHOOSE i \in 1..Len(techniques) : techniques[i].id = r.id

\* C14: build_database emits records in a fixed nested order: tactics in the
\* order of the tactic list, within a tactic its techniques in declared order,
\* and each technique record followed directly by its sub-technique records
\* in declared order, before the next technique.
C14_NestedOrder ==
    builds > 0 =>
        /\ \A n, n2 \in 1..Len(database) :
               n < n2 => TacticPos(database[n].tactic_id) <= TacticPos(database[n2].tactic_id)
        /\ \A n, n2 \in 1..Len(database) :
               (/\ n < n2
                /\ database[n].type = "technique" /\ database[n2].type = "technique"
                /\ database[n].tactic_id = database[n2].tactic_id)
                   => TechniquePos(database[n]) < TechniquePos(database[n2])
        /\ \A n \in 1..Len(database) :
               database[n].type = "technique" =>
                   LET subs == DeclaredTechnique(database[n]).sub_techniques
                   IN  /\ n + Len(subs) <= Len(database)
                       /\ \A j \in 1..Len(subs) :
                              /\ database[n + j].type = "sub_technique"
                              /\ database[n + j].id = subs[j].id
                              /\ database[n + j].parent_id = Some(database[n].id)
                       /\ n + Len(subs) < Len(database)
                              => database[n + Len(subs) + 1].type = "technique"
        /\ database # <<>> => database[1].type = "technique"

\* a build from a tactic list that names the tactics in another order than
\* their ids, with a technique of two sub-techniques before another technique
C14_Witness ==
    /\ builds > 0
    /\ Len(TACTICS) = 2 /\ TACTICS[1].id = "ST0002"
    /\ \E n \in 1..Len(database) - 3 :
          /\ database[n].type = "technique"
          /\ database[n + 1].type = "sub_technique"
          /\ database[n + 2].type = "sub_technique"
          /\ database[n + 3].type = "technique"
          /\ database[n + 3].tactic_id = database[n].tactic_id
    /\ \E n \in 1..Len(database) : database[n].tactic_id = "ST0001"

\* a technique is listed under a tactic id that the tactic list does not have
Malformed ==
    \E tid \in DOMAIN SPARTA_DATA :
        /\ SPARTA_DATA[tid] # <<>>
        /\ \A k \in 1..Len(TACTICS) : TACTICS[k].id # tid

\* C15: build_database fails with MalformedTaxonomy, and returns no record
\* store, when a technique is listed under a tactic id that is absent from the
\* tactic list: no build of such a taxonomy returns.
C15_MalformedTaxonomyFails == Malformed => builds = 0

\* the declared technique under which a sub-technique record was declared
ParentOf(r) ==
    LET techniques == SPARTA_DATA[r.tactic_id]
    IN  techniques[CHOOSE i \in 1..Len(techniques) :
                      \E j \in 1..Len(techniques[i].sub_techniques) :
                          techniques[i].sub_techniques[j].id = r.id]

\* C16: the composite text (full_text) of every record is made, in this
\* order, of its name, its description, the name of the parent technique (for
\* a sub-technique record only) and its tactic name, each two joined by one
\* space; the text of a technique record has no parent-name component.
C16_CompositeText ==
    builds > 0 =>
        \A n \in 1..Len(database) :
            LET r  == database[n]
                sp == <<" ">>
            IN  /\ r.tactic = TACTICS[TacticPos(r.tactic_id)].name
                /\ IF r.type = "technique"
                   THEN /\ r.full_text = r.name \o sp \o r.description \o sp \o r.tactic
                        /\ r.name = DeclaredTechnique(r).name
                        /\ r.description = DeclaredTechnique(r).description
                   ELSE /\ r.full_text = r.name \o sp \o r.description \o sp
                                             \o ParentOf(r).name \o sp \o r.tactic
                        /\ r.parent_id = Some(ParentOf(r).id)

\* a build has returned a technique record and a sub-technique record of it
C16_Witness ==
    /\ builds > 0
    /\ \E n \in 1..Len(database) - 1 :
          /\ database[n].type = "technique"
          /\ database[n + 1].type = "sub_technique"
          /\ database[n + 1].parent_id = Some(database[n].id)
          /\ Len(database[n + 1].full_text) >
                 Len(database[n + 1].name) + Len(database[n + 1].description)
                     + Len(database[n + 1].tactic) + 2

\* the places of the technique records before place n
TechniquesBefore(n) == {m \in 1..(n - 1) : database[m].type = "technique"}

\* C29: in the built database every technique record has parent_id None, and
\* every sub_technique record has as parent_id the id of the nearest
\* preceding technique record, carries the name of that technique as
\* parent_name, and has its tactic_id and tactic name.
C29_ParentLinkage ==
    builds > 0 =>
        \A n \in 1..Len(database) :
            IF database[n].type = "technique"
            THEN database[n].parent_id = None
            ELSE /\ database[n].type = "sub_technique"
                 /\ TechniquesBefore(n) # {}
                 /\ LET m == CHOOSE m \in TechniquesBefore(n) :
                                 \A m2 \in TechniquesBefore(n) : m2 <= m
                    IN  /\ database[n].parent_id = Some(database[m].id)
                        /\ database[n].parent_name = database[m].name
                        /\ database[n].tactic_id = database[m].tactic_id
                        /\ database[n].tactic = database[m].tactic

\* a build has returned a sub-technique record of the second technique of a
\* tactic whose first technique has sub-techniques too
C29_Witness ==
    /\ builds > 0
    /\ \E n \in 1..Len(database) :
          /\ database[n].type = "sub_technique"
          /\ \E m, m0 \in TechniquesBefore(n) :
                /\ m0 < m
                /\ database[m0].tactic_id = database[n].tactic_id
                /\ database[m0 + 1].type = "sub_technique"
                /\ database[n].parent_id = Some(database[m].id)

(***************************************************************************)
(* Properties of the keyword search (SpecKeyword)                          *)
(***************************************************************************)
\* the words of a string, as the set of its maximal whitespace-free pieces
WordsOf(s) ==
    {SubSeq(s, r[1], r[2]) :
        r \in {r \in (1..Len(s)) \X (1..Len(s)) :
                  /\ r[1] <= r[2]
                  /\ \A n \in r[1]..r[2] : s[n] \notin Whitespace
                  /\ (r[1] = 1 \/ s[r[1] - 1] \in Whitespace)
                  /\ (r[2] = Len(s) \/ s[r[2] + 1] \in Whitespace)}}

B2I(b) == IF b THEN 1 ELSE 0

\* the four contributions the scoring policy names
NameBonus(entry, q)    == 100 * B2I(Contains(Lower(q), Lower(entry.name)))
DescBonus(entry, q)    == 50 * B2I(Contains(Lower(q), Lower(entry.description)))
OverlapBonus(entry, q) == 10 * Cardinality(WordsOf(Lower(q)) \cap WordsOf(Lower(entry.full_text)))
PartialBonus(entry, q) ==
    5 * Cardinality({w \in WordsOf(Lower(q)) : Contains(w, Lower(entry.full_text))})
PolicyScore(entry, q) ==
    NameBonus(entry, q) + DescBonus(entry, q) + OverlapBonus(entry, q) + PartialBonus(entry, q)

\* C2: the keyword score of a record is the sum of four independent
\* contributions (100 name substring, 50 description substring, 10 per distinct
\* query word that is a word of the composite text, 5 per distinct query word
\* that is a substring of it), so a record whose name contains the query
\* scores at least 100 plus its word-overlap bonus.
C2_ScoreIsSumOfContributions ==
    searches > 0 =>
        \A i \in 1..Len(database) :
            LET score == EntryScore(database[i], query)
            IN  /\ score = PolicyScore(database[i], query)
                /\ Contains(Lower(query), Lower(database[i].name))
                       => score >= 100 + OverlapBonus(database[i], query)

\* a search has returned a record that earns all four contributions, from a
\* store with a record that earns the substring bonus without the word bonus
C2_Witness ==
    /\ searches > 0
    /\ \E i \in 1..Len(results) :
          /\ NameBonus(results[i], query) = 100
          /\ DescBonus(results[i], query) = 50
          /\ OverlapBonus(results[i], query) > 0
          /\ PartialBonus(results[i], query) > 0
    /\ \E i \in 1..Len(database) :
          /\ OverlapBonus(database[i], query) = 0
          /\ PartialBonus(database[i], query) > 0

\* the place of a record in the store
StoreIndex(entry) == CHOOSE i \in 1..Len(database) : database[i] = entry

\* the policy score of every record of the store for the query
StoreScores == [i \in 1..Len(database) |-> PolicyScore(database[i], query)]

\* the policy score of a returned record
ScoreOfResult(sc, entry) == sc[StoreIndex(entry)]

\* C3: search_techniques never returns a record whose score for the query is 0.
C3_NoZeroScoreReturned ==
    searches > 0 =>
        LET sc == StoreScores
        IN  \A n \in 1..Len(results) :
                results[n] \in ToSet(database) /\ ScoreOfResult(sc, results[n]) > 0

\* a search with room left (fewer results than top_k) has returned some records
\* and left out a record of score 0
C3_Witness ==
    /\ searches > 0
    /\ results # <<>>
    /\ Len(results) < top_k
    /\ \E i \in 1..Len(database) :
          /\ StoreScores[i] = 0
          /\ \A j \in 1..Len(results) : results[j] # database[i]

\* record i ranks before record j: higher score, or equal score and earlier in the store
RanksBefore(sc, i, j) == sc[i] > sc[j] \/ (sc[i] = sc[j] /\ i < j)

\* the records with a positive score
Scoring(sc) == {i \in DOMAIN sc : sc[i] > 0}

\* res is the first k records of the ranking of the store
IsTopOfRanking(res, k) ==
    LET sc  == StoreScores
        idx == [n \in 1..Len(res) |-> StoreIndex(res[n])]
    IN  /\ \A n \in 1..Len(res) : res[n] \in ToSet(database) /\ idx[n] \in Scoring(sc)
        /\ \A n, n2 \in 1..Len(res) : n < n2 => RanksBefore(sc, idx[n], idx[n2])
        /\ Len(res) = IF k < Cardinality(Scoring(sc)) THEN k ELSE Cardinality(Scoring(sc))
        /\ \A i \in Scoring(sc) \ ToSet(idx) : \A n \in 1..Len(res) : RanksBefore(sc, idx[n], i)

\* C4: search_techniques returns records sorted by descending score, records
\* of equal score in their store order, and the result is the first top_k
\* records of that ordering.
C4_StableDescendingTopK == searches > 0 => IsTopOfRanking(results, top_k)

\* a search has returned two records of equal score and cut the ranking at
\* top_k, leaving out a record of a lower positive score
C4_Witness ==
    LET sc == StoreScores
    IN  /\ searches > 0
        /\ Cardinality(Scoring(sc)) > top_k
        /\ \E n \in 1..Len(results) - 1 :
              ScoreOfResult(sc, results[n]) = ScoreOfResult(sc, results[n + 1])
        /\ \E i \in Scoring(sc) : \A n \in 1..Len(results) :
              ScoreOfResult(sc, results[n]) > sc[i]

\* seq is the first k elements of full, or all of full when it has fewer
IsPrefixOfLength(seq, full, k) ==
    seq = SubSeq(full, 1, IF k < Len(full) THEN k ELSE Len(full))

\* C5: prefix stability: for the same query and records and 0 <= k1 <= k2,
\* search_techniques(top_k=k1) is exactly the first k1 elements (or all, if
\* fewer) of search_techniques(top_k=k2).
C5_PrefixStability ==
    searches >= 2 =>
        /\ prev_top_k <= top_k => IsPrefixOfLength(prev_results, results, prev_top_k)
        /\ top_k <= prev_top_k => IsPrefixOfLength(results, prev_results, top_k)

\* two searches with 0 < k1 < k2, the second returning more records than the first
C5_Witness ==
    /\ searches >= 2
    /\ 0 < prev_top_k /\ prev_top_k < top_k
    /\ Len(prev_results) = prev_top_k
    /\ Len(results) > Len(prev_results)
    /\ \E n \in 1..Len(results) - 1 :
          PolicyScore(results[n], query) > PolicyScore(results[n + 1], query)

\* the query words that are whole words of the composite text of a record,
\* and those that occur in it as substrings
WholeWords(entry, q) == WordsOf(Lower(q)) \cap WordsOf(Lower(entry.full_text))
SubstringWords(entry, q) == {w \in WordsOf(Lower(q)) : Contains(w, Lower(entry.full_text))}

\* C26: every distinct query word that earns the +10 whole-word bonus also
\* earns the +5 substring bonus: a whole-word match contributes exactly 15, a
\* query word that is only a substring contributes 5, and there are never
\* fewer +5 bonuses than +10 bonuses.
C26_WholeWordCountsTwice ==
    searches > 0 =>
        \A i \in 1..Len(database) :
            LET whole == WholeWords(database[i], query)
                part  == SubstringWords(database[i], query)
            IN  /\ whole \subseteq part
                /\ Cardinality(part) >= Cardinality(whole)
                /\ EntryScore(database[i], query)
                       = NameBonus(database[i], query) + DescBonus(database[i], query)
                         + 15 * Cardinality(whole) + 5 * Cardinality(part \ whole)

\* a search has returned a record with a query word that is a whole word of
\* its text and another query word that is only a substring of it
C26_Witness ==
    /\ searches > 0
    /\ \E n \in 1..Len(results) :
          /\ WholeWords(results[n], query) # {}
          /\ SubstringWords(results[n], query) \ WholeWords(results[n], query) # {}

(***************************************************************************)
(* Properties of the ranking (SpecRank)                                    *)
(***************************************************************************)
SearchReturned == call.op = "search" /\ call.error = ""

\* the place in the store of the record of a result
ResultIndex(r) == CHOOSE i \in 1..Len(DatabaseFile) : DatabaseFile[i] = r.entry

SortedByDescendingScore(res) ==
    \A n, n2 \in 1..Len(res) : n < n2 => res[n].score.v >= res[n2].score.v

TiesInStoreOrder(res) ==
    \A n, n2 \in 1..Len(res) :
        (n < n2 /\ res[n].score.v = res[n2].score.v) => ResultIndex(res[n]) < ResultIndex(res[n2])

\* C6 as stated: search returns (record, score) pairs sorted by descending
\* cosine score, and entries of equal score are ordered by store order (lower
\* record index first).
C6_DescendingTiesInStoreOrder ==
    SearchReturned => SortedByDescendingScore(call.results) /\ TiesInStoreOrder(call.results)

\* C6 as amended: search returns (record, score) pairs sorted by descending
\* cosine score; the order of entries of equal score is not fixed.
C6_DescendingScore == SearchReturned => SortedByDescendingScore(call.results)

\* a search has returned all three records, two of them with equal scores and
\* one with a lower score
C6_Witness ==
    /\ SearchReturned
    /\ Len(call.results) = 3
    /\ \E n \in 1..2 : call.results[n].score.v = call.results[n + 1].score.v
    /\ \E n \in 1..2 : call.results[n].score.v > call.results[n + 1].score.v

\* the scores of the stored vectors for the query vector of the call
CallSimilarities == Similarities(embeddings[1], call.qv)

\* the store places whose score is at least the min_score of the call
Passing == {i \in 1..Len(CallSimilarities) : ScoreGe(CallSimilarities[i], call.min_score)}

\* C7: search drops every entry whose score is below min_score and returns the
\* first top_k of the remaining entries: no returned score is below min_score,
\* at most top_k entries are returned, no entry with score >= min_score is
\* omitted while fewer than top_k entries are returned, and when min_score
\* exceeds the best score the result is empty and no error is raised.
C7_MinScoreThenTopK ==
    call.op = "search" =>
        /\ call.error = ""
        /\ \A n \in 1..Len(call.results) : ScoreGe(call.results[n].score, call.min_score)
        /\ Len(call.results) <= call.top_k
        /\ Len(call.results) < call.top_k
               => \A i \in Passing : \E n \in 1..Len(call.results) :
                      ResultIndex(call.results[n]) = i
        /\ Passing = {} => call.results = <<>>

\* C8: get_related_techniques never includes the record with the queried id in
\* its output, wherever that record appears in the ranking.
C8_RelatedExcludesQueried ==
    (call.op = "get_related_techniques" /\ call.error = "") =>
        \A n \in 1..Len(call.results) : call.results[n].entry.id # call.id

\* the ids of the records of the store
StoreIds == {database_file[i].id : i \in 1..Len(database_file)}

\* C17: a related-techniques request for an id that is not in the store ends
\* in an outcome the caller can tell apart from that of a request for a known
\* id without related results, which is the empty list and no error.
C17_UnknownIdIsDistinct ==
    (call.op = "get_related_techniques" /\ call.id \notin StoreIds) =>
        ~(call.error = "" /\ call.results = <<>>)

\* res without the entries of the record with the given id, the others in
\* their order
RemoveId(res, id) == SelectSeq(res, LAMBDA r : r.entry.id # id)

\* what a search of the call's query vector for the first n entries returns
\* when the scores are sorted into the order p
RankedTop(p, n) ==
    LET top == TopIndices(p, n)
    IN  SelectSeq([i \in 1..Len(top) |->
                      [entry |-> eng_database[1][top[i]], score |-> CallSimilarities[top[i]]]],
                  LAMBDA r : ScoreGe(r.score, MinScoreDefault))

\* C22: get_related_techniques(id, top_k) for an id of the store is the result
\* of search(description of that record, top_k + 1) with the queried record
\* removed and the other entries kept in their order: every other record among
\* the top_k + 1 ranked entries is returned.
C22_RelatedIsSearchWithoutQueried ==
    (call.op = "get_related_techniques" /\ call.id \in StoreIds /\ call.error = "") =>
        \E p \in Argsorts(CallSimilarities) :
            call.results = RemoveId(RankedTop(p, call.top_k + 1), call.id)

ZeroNorm(v) == Dot(v, v) = 0

\* the store places whose score is 0 by the rule for vectors of norm 0
ZeroNormPlaces ==
    {i \in 1..Len(embeddings[1]) : ZeroNorm(embeddings[1][i]) \/ ZeroNorm(call.qv)}

\* C24: the score of a stored vector is 0 whenever the query vector or the
\* stored vector has norm exactly 0: such an entry is ranked and filtered as
\* an entry of score 0, so that it is returned with score 0 when min_score
\* allows a score of 0 and fewer than top_k entries are returned.
C24_ZeroNormScoresZero ==
    SearchReturned =>
        /\ \A n \in 1..Len(call.results) : ~call.results[n].score.nan
        /\ \A i \in ZeroNormPlaces :
               /\ \A n \in 1..Len(call.results) :
                      ResultIndex(call.results[n]) = i => call.results[n].score = Num(0)
               /\ (call.min_score <= 0 /\ Len(call.results) < call.top_k)
                      => \E n \in 1..Len(call.results) : ResultIndex(call.results[n]) = i

(***************************************************************************)
(* Properties of the engine and the agent (Spec)                           *)
(***************************************************************************)
\* the index file holds vectors of another provider than the engine's
StaleFile == index_file # None /\ index_file[1].model_name # model_name

\* C9: load_embeddings of a persisted index whose model_name differs from the
\* engine's signals StaleIndex and leaves the engine without the persisted
\* vectors.
C9_StaleIndexRefused ==
    (call.op = "load_embeddings" /\ StaleFile) =>
        /\ call.error = "StaleIndex"
        /\ ~call.loaded
        /\ embeddings # Loads(index_file[1].embeddings)

\* the keywords the lowercased query of the call contains
KeywordsInQuery ==
    {i \in 1..Len(tactic_keywords) : Contains(tactic_keywords[i].keyword, Lower(call.query))}

ReconQuery == <<"w","h","a","t"," ","a","r","e"," ","t","h","e"," ","r","e","c","o","n","n","a","i","s","s","a","n","c","e"," ","t","e","c","h","n","i","q","u","e","s">>
Reconnaissance == tactic_keywords[1].tactic

\* C10: a query whose lowercased text contains a key of the tactic-keyword
\* mapping takes the tactic path, on the canonical name of a key it contains,
\* and every record used has a tactic name containing that canonical name; the
\* query "what are the reconnaissance techniques" uses only records whose
\* tactic name contains "Reconnaissance".
C10_TacticRouting ==
    call.op = "answer_query" =>
        /\ KeywordsInQuery # {} =>
              /\ call.path = "tactic"
              /\ call.error = ""
              /\ \E i \in KeywordsInQuery : call.tactic = tactic_keywords[i].tactic
              /\ \A n \in 1..Len(call.results) : Contains(call.tactic, call.results[n].tactic)
        /\ call.query = ReconQuery =>
              /\ call.path = "tactic"
              /\ \A n \in 1..Len(call.results) : Contains(Reconnaissance, call.results[n].tactic)

\* the reconnaissance question has been answered from the two Reconnaissance
\* records of a store that also holds a record of another tactic
C10_Witness ==
    /\ call.op = "answer_query"
    /\ call.query = ReconQuery
    /\ call.path = "tactic"
    /\ Len(call.results) = 2
    /\ \E i \in 1..Len(DatabaseFile) : ~Contains(Reconnaissance, DatabaseFile[i].tactic)

\* C18: after create_embeddings has completed there is exactly one vector per
\* record, the vector at position i is the embedding of the text composed
\* from record i of the store, and the embedding function has been called
\* exactly once, on the whole batch of the record texts.
C18_OneVectorPerRecord ==
    (call.op = "create_embeddings" /\ call.error = "") =>
        /\ eng_database # None /\ embeddings # None
        /\ Len(embeddings[1]) = Len(eng_database[1])
        /\ \A i \in 1..Len(eng_database[1]) :
               embeddings[1][i] = provider[model_name][EmbeddingText(eng_database[1][i])]
        /\ Len(call.encoded) = 1
        /\ call.encoded[1] = [i \in 1..Len(eng_database[1]) |-> EmbeddingText(eng_database[1][i])]

\* create_embeddings has completed on a store whose first and last records
\* have different embeddings
C18_Witness ==
    /\ call.op = "create_embeddings" /\ call.error = ""
    /\ embeddings # None
    /\ Len(embeddings[1]) = 3
    /\ embeddings[1][1] # embeddings[1][3]

\* a search has got as far as ranking: its model was loaded and it had vectors
\* to compare the query with
SearchRanked == call.op = "search" /\ call.error # "ImportError" /\ embeddings # None

\* C19: in every state in which a semantic search ranks records, the index
\* holds exactly one vector per record of the loaded database (number of
\* vectors = number of records), whether the index was built in this session
\* or restored from the index file.
C19_IndexAlignedWhenRanking ==
    SearchRanked =>
        /\ eng_database # None
        /\ Len(embeddings[1]) = Len(eng_database[1])

\* the index file was written for the model name of the engine
SameProviderFile == index_file # None /\ index_file[1].model_name = model_name

\* C20: save_embeddings followed by load_embeddings on an engine with the same
\* model_name and index path is a round trip: the engine has the matrix that
\* was saved, in the same order, and the file has the model name that was
\* saved with it.
C20_SaveLoadRoundTrip ==
    (call.op = "load_embeddings" /\ SameProviderFile) =>
        /\ call.loaded
        /\ call.error = ""
        /\ saved # None
        /\ embeddings = saved[1].embeddings
        /\ index_file[1].model_name = saved[1].model_name

\* a matrix of three different rows has been restored from the index file
C20_Witness ==
    /\ call.op = "load_embeddings" /\ SameProviderFile
    /\ call.loaded
    /\ embeddings # None
    /\ Len(embeddings[1]) = 3
    /\ embeddings[1][1] # embeddings[1][2] /\ embeddings[1][2] # embeddings[1][3]
    /\ embeddings[1][1] # <<1, 1>>

OccursIgnoringCase(needle, hay) ==
    \E off \in 0..(Len(hay) - Len(needle)) :
        \A k \in 1..Len(needle) : LowerChar(needle[k]) = LowerChar(hay[off + k])

\* the first keyword, in the order of the mapping, that the query of the call contains
FirstInMapping == CHOOSE i \in KeywordsInQuery : \A j \in KeywordsInQuery : i <= j

\* C23: when a query contains several tactic keywords, answer_query takes
\* exactly one tactic path, the one of the first matching keyword in the
\* iteration order of the mapping, wherever the keywords occur in the query.
C23_FirstKeywordInMappingOrderWins ==
    (call.op = "answer_query" /\ KeywordsInQuery # {}) =>
        /\ call.path = "tactic"
        /\ call.tactic = tactic_keywords[FirstInMapping].tactic
        /\ call.response.kind = "tactic"
        /\ call.response.tactic = call.tactic
        /\ Len(call.results) =
               Cardinality({i \in 1..Len(database_file) :
                               OccursIgnoringCase(call.tactic, database_file[i].tactic)})
        /\ \A n \in 1..Len(call.results) :
               OccursIgnoringCase(call.tactic, call.results[n].tactic)

\* a query that names Impact before Reconnaissance has been answered with the
\* Reconnaissance records
C23_Witness ==
    /\ call.op = "answer_query"
    /\ Cardinality(KeywordsInQuery) = 2
    /\ call.tactic = Reconnaissance
    /\ call.results # <<>>
    /\ \E off \in 1..Len(call.query) :
          /\ Contains(tactic_keywords[9].keyword, SubSeq(Lower(call.query), 1, off))
          /\ ~Contains(tactic_keywords[1].keyword, SubSeq(Lower(call.query), 1, off))

\* a step in which a semantic search is made and gets past the loading of the model
SemanticSearchStep ==
    /\ \/ call'.op = "search"
       \/ call'.op = "answer_query" /\ call'.path = "semantic"
       \/ call'.op = "get_related_techniques" /\ call'.id \in StoreIds
    /\ call'.error # "ImportError"

\* a semantic search of an engine with an index reuses it; one of an engine
\* without an index restores it from the index file if there is one, and else
\* builds it from the database and saves it
SearchUsesIndexLazily ==
    SemanticSearchStep =>
        IF embeddings # None
        THEN /\ embeddings' = embeddings /\ index_file' = index_file
             /\ call'.dumps = 0 /\ Len(call'.encoded) = 1
        ELSE IF index_file # None
        THEN /\ embeddings' = Loads(index_file[1].embeddings) /\ index_file' = index_file
             /\ call'.dumps = 0 /\ Len(call'.encoded) = 1
        ELSE /\ embeddings' # None
             /\ Len(embeddings'[1]) = Len(database_file)
             /\ index_file' = Some([embeddings |-> Dumps(embeddings'), model_name |-> model_name])
             /\ call'.dumps = 1 /\ Len(call'.encoded) = 2

\* C25 as stated: no index is built or loaded before the first semantic
\* search (an engine comes to hold an index only in a semantic search); the
\* first semantic search restores the index from the index file if one exists
\* and else builds and saves it; later searches on the engine reuse the index
\* in memory and neither rebuild nor save it.
C25_IndexOnlyFromSearch ==
    [][/\ (embeddings = None /\ embeddings' # None) => SemanticSearchStep
       /\ SearchUsesIndexLazily]_vars

\* C25 as amended: the constructor builds and loads no index; a semantic
\* search on an engine without an index restores it from the index file if one
\* exists and else builds and saves it; a semantic search on an engine that
\* holds an index, from an earlier search or from a call of create_embeddings
\* or load_embeddings, reuses it and neither rebuilds nor saves it.
C25_LazyIndexLifecycle ==
    [][/\ call'.op = "__init__" => (embeddings' = None /\ index_file' = index_file)
       /\ SearchUsesIndexLazily]_vars

\* a search has built the index and saved it
C25_Witness ==
    /\ call.op = "search" /\ call.error = ""
    /\ call.dumps = 1
    /\ Len(call.encoded) = 2
    /\ embeddings # None /\ index_file # None

\* C27: a semantic search succeeds in every initialisation order of the
\* engine: whether the index is built in the call or restored from the index
\* file, the database is loaded before the results are assembled, so that
\* every returned entry is a record of the database and the call does not fail
\* for lack of a loaded database.
C27_SearchHasDatabase ==
    (call.op = "search" /\ call.error # "ImportError" /\ embeddings # None) =>
        /\ call.error = ""
        /\ eng_database # None
        /\ \A n \in 1..Len(call.results) : call.results[n].entry \in ToSet(eng_database[1])

\* C28: the tactic path never touches the embedding provider or the
\* embedding index: a query with a tactic keyword is answered when the
\* provider is unavailable, and the call leaves the model, the embeddings and
\* the index file of the engine as they were and encodes nothing.
C28_TacticPathLeavesIndexAlone ==
    [][(call'.op = "answer_query" /\ call'.path = "tactic") =>
           /\ call'.error = ""
           /\ call'.response.kind = "tactic"
           /\ call'.encoded = <<>>
           /\ model' = model /\ embeddings' = embeddings /\ index_file' = index_file]_vars

\* a tactic question has been answered with records by an engine without the
\* provider
C28_Witness ==
    /\ call.op = "answer_query" /\ call.path = "tactic"
    /\ ~AVAILABLE
    /\ call.results # <<>>
    /\ call.response.kind = "tactic"

\* the places of the store whose tactic name contains the tactic of the call
TacticMatches ==
    {i \in 1..Len(database_file) : OccursIgnoringCase(call.tactic, database_file[i].tactic)}

\* C13: search_by_tactic returns exactly the records whose tactic name
\* contains the given string, case ignored, in store order; when no tactic
\* name matches it returns the empty sequence and raises no error.
C13_TacticFilter ==
    call.op = "search_by_tactic" =>
        /\ call.error = ""
        /\ Len(call.results) = Cardinality(TacticMatches)
        /\ \A n \in 1..Len(call.results) :
               \E i \in TacticMatches :
                  /\ Cardinality({j \in TacticMatches : j < i}) = n - 1
                  /\ call.results[n] = database_file[i]

\* a string that occurs in no tactic name in its own case has selected some
\* records of the store and not others
C13_Witness ==
    /\ call.op = "search_by_tactic"
    /\ \A i \in 1..Len(database_file) : ~Contains(call.tactic, database_file[i].tactic)
    /\ call.results # <<>>
    /\ Len(call.results) < Len(database_file)

(***************************************************************************)
(* Properties of the agent (SpecAgent)                                     *)
(***************************************************************************)
SemanticQuery == call.op = "answer_query" /\ KeywordsInQuery = {}

\* C11: a query that contains none of the tactic keywords takes the semantic
\* path, which calls search with top_k=5 and min_score=0.3, so that the answer
\* is built from at most 5 records, all of them with a score >= 0.3.
C11_SemanticPathTop5Min03 ==
    SemanticQuery =>
        /\ call.path = "semantic"
        /\ call.top_k = 5
        /\ call.min_score = 9
        /\ call.error = "" =>
              /\ Len(call.results) <= 5
              /\ \A n \in 1..Len(call.results) : ScoreGe(call.results[n].score, 9)
              /\ Len(call.response.items) = Len(call.results)
              /\ \A n \in 1..Len(call.results) :
                     /\ call.response.items[n].id = call.results[n].entry.id
                     /\ call.response.items[n].score = call.results[n].score

\* a semantic answer of 5 records from a store in which 6 records score >= 0.3
C11_Witness ==
    /\ SemanticQuery
    /\ call.error = ""
    /\ Len(call.results) = 5
    /\ Cardinality({i \in 1..Len(embeddings[1]) :
                        ScoreGe(Cosine(embeddings[1][i], call.qv), 9)}) = 6

\* C12: when the embedding provider is unavailable, a query dispatched to the
\* semantic path ends in an error; it is not answered, neither with the "no
\* relevant techniques" sentence nor with an empty result.
C12_UnavailableIsAnError ==
    (SemanticQuery /\ ~AVAILABLE) =>
        /\ call.error # ""
        /\ call.response = NoResponse
        /\ call.response.kind # "no_relevant"

\* a semantic query was put to an agent without the provider, over an engine
\* whose database is loaded
C12_Witness ==
    /\ SemanticQuery
    /\ ~AVAILABLE
    /\ call.error = "ImportError"
    /\ eng_database # None

(***************************************************************************)
(* Properties of the tactic filter over the built-in tactics (SpecTaxonomy) *)
(***************************************************************************)
\* the records of the store whose tactic has the given name
RecordsOfTactic(name) == SelectSeq(database_file, LAMBDA e : e.tactic = name)

\* the canonical names for which search_by_tactic returns the record
SelectedBy(r) ==
    {name \in CanonicalNames : r \in ToSet(do_search_by_tactic(Engine, name).results)}

\* C30: for the built-in tactic list, each canonical tactic name of the
\* router's mapping is the name of exactly one tactic and selects exactly its
\* records: search_by_tactic(canonical name) returns all records of the tactic
\* of that name and no record of another tactic, and the nine results
\* partition the database.
C30_CanonicalNamesPartition ==
    /\ \A name \in CanonicalNames :
           Cardinality({k \in 1..Len(BuiltinTactics) : BuiltinTactics[k].name = name}) = 1
    /\ call.op = "search_by_tactic" =>
           /\ call.error = ""
           /\ call.results = RecordsOfTactic(call.tactic)
    /\ \A i \in 1..Len(database_file) : Cardinality(SelectedBy(database_file[i])) = 1

\* the name Impact has selected a technique and its sub-technique from a
\* store with records of the nine tactics
C30_Witness ==
    /\ call.op = "search_by_tactic"
    /\ call.tactic = tactic_keywords[9].tactic
    /\ Len(call.results) = 2
    /\ Cardinality({database_file[i].tactic : i \in 1..Len(database_file)}) = 9

====
